---------------------------- MODULE Spec2Model ----------------------------
(***************************************************************************)
(* Model of Main.py: the lica converter.  pack turns the members of a zip  *)
(* archive into one JSON object of base64 strings, written incrementally;  *)
(* unpack reads such a container (json.load, or ijson.kvitems when asked   *)
(* for and available) and writes one file per entry.                       *)
(*                                                                         *)
(* A text (a file name, a JSON document, a base64 string) is a sequence of *)
(* one-character strings; a payload is a sequence of bytes 0..255.         *)
(***************************************************************************)
EXTENDS Integers, Sequences, FiniteSets, TLC

\* The longest archive the model enumerates (number of members).
MaxMembers == 3

(***************************************************************************)
(* Small helpers on sequences.                                             *)
(***************************************************************************)
Last(s) == s[Len(s)]

Front(s) == SubSeq(s, 1, Len(s) - 1)

Range(s) == {s[i] : i \in 1..Len(s)}

\* All sequences over S of length 0..n.
SeqsUpTo(S, n) == UNION {[1..k -> S] : k \in 0..n}

(***************************************************************************)
(* base64.b64encode: three bytes become four characters of the alphabet,   *)
(* a tail of one or two bytes is padded with '='.                          *)
(***************************************************************************)
B64Alphabet ==
  <<"A", "B", "C", "D", "E", "F", "G", "H", "I", "J", "K", "L", "M", "N", "O", "P",
    "Q", "R", "S", "T", "U", "V", "W", "X", "Y", "Z", "a", "b", "c", "d", "e", "f",
    "g", "h", "i", "j", "k", "l", "m", "n", "o", "p", "q", "r", "s", "t", "u", "v",
    "w", "x", "y", "z", "0", "1", "2", "3", "4", "5", "6", "7", "8", "9", "+", "/">>

B64Char(n) == B64Alphabet[n + 1]

RECURSIVE b64encode(_)
b64encode(bytes) ==
  IF Len(bytes) = 0 THEN <<>>
  ELSE IF Len(bytes) = 1 THEN
    << B64Char(bytes[1] \div 4), B64Char((bytes[1] % 4) * 16), "=", "=" >>
  ELSE IF Len(bytes) = 2 THEN
    << B64Char(bytes[1] \div 4),
       B64Char((bytes[1] % 4) * 16 + bytes[2] \div 16),
       B64Char((bytes[2] % 16) * 4), "=" >>
  ELSE
    << B64Char(bytes[1] \div 4),
       B64Char((bytes[1] % 4) * 16 + bytes[2] \div 16),
       B64Char((bytes[2] % 16) * 4 + bytes[3] \div 64),
       B64Char(bytes[3] % 64) >>
    \o b64encode(SubSeq(bytes, 4, Len(bytes)))

(***************************************************************************)
(* base64.b64decode(s) with its default validate=False, as                 *)
(* binascii.a2b_base64 does it: characters outside the alphabet are        *)
(* skipped, a complete pad sequence ends the decoding, and a quantum left  *)
(* incomplete at the end of the text is an error (binascii.Error).         *)
(* The result is [ok, data].                                               *)
(***************************************************************************)
B64Value(c) == CHOOSE n \in 0..63 : B64Char(n) = c

IsB64Char(c) == \E n \in 0..63 : B64Char(n) = c

RECURSIVE B64DecodeFrom(_, _, _, _, _, _)
B64DecodeFrom(s, i, quad, pads, left, out) ==
  IF i > Len(s) THEN [ok |-> quad = 0, data |-> IF quad = 0 THEN out ELSE <<>>]
  ELSE IF s[i] = "=" THEN
    IF quad >= 2 /\ quad + pads + 1 >= 4 THEN [ok |-> TRUE, data |-> out]
    ELSE B64DecodeFrom(s, i + 1, quad, IF quad >= 2 THEN pads + 1 ELSE pads, left, out)
  ELSE IF ~IsB64Char(s[i]) THEN B64DecodeFrom(s, i + 1, quad, pads, left, out)
  ELSE LET v == B64Value(s[i]) IN
    CASE quad = 0 -> B64DecodeFrom(s, i + 1, 1, 0, v, out)
      [] quad = 1 -> B64DecodeFrom(s, i + 1, 2, 0, v % 16,
                                   Append(out, left * 4 + v \div 16))
      [] quad = 2 -> B64DecodeFrom(s, i + 1, 3, 0, v % 4,
                                   Append(out, left * 16 + v \div 4))
      [] OTHER    -> B64DecodeFrom(s, i + 1, 0, 0, 0, Append(out, left * 64 + v))

b64decode(s) == B64DecodeFrom(s, 1, 0, 0, 0, <<>>)

(***************************************************************************)
(* json.dumps(text) of a string: the text between quotes, with the quote,  *)
(* the backslash and the control characters escaped.                       *)
(***************************************************************************)
EscapeChar(c) ==
  CASE c = "\"" -> <<"\\", "\"">>
    [] c = "\\" -> <<"\\", "\\">>
    [] c = "\n" -> <<"\\", "n">>
    [] c = "\t" -> <<"\\", "t">>
    [] OTHER    -> <<c>>

RECURSIVE EscapeBody(_)
EscapeBody(text) ==
  IF Len(text) = 0 THEN <<>> ELSE EscapeChar(text[1]) \o EscapeBody(Tail(text))

JsonDumps(text) == <<"\"">> \o EscapeBody(text) \o <<"\"">>

(***************************************************************************)
(* The JSON reader, for the documents the model holds: one object of       *)
(* string keys and string values, or an empty array (a well-formed         *)
(* document that is no object).  ParseJson gives                           *)
(*   kind  = "object" | "other" | "error"                                  *)
(*   pairs = the key/value pairs in document order; for "error", the pairs *)
(*           that were complete before the point of failure.               *)
(***************************************************************************)
IsWs(c) == c \in {" ", "\n", "\t", "\r"}

RECURSIVE SkipWs(_, _)
SkipWs(s, i) == IF i <= Len(s) /\ IsWs(s[i]) THEN SkipWs(s, i + 1) ELSE i

Unescape(c) ==
  CASE c = "n" -> "\n"
    [] c = "t" -> "\t"
    [] c = "r" -> "\r"
    [] OTHER   -> c

\* The body of a string from position i (after the opening quote):
\* [ok, text, next], next being the position after the closing quote.
RECURSIVE ParseStringBody(_, _, _)
ParseStringBody(s, i, acc) ==
  IF i > Len(s) THEN [ok |-> FALSE, text |-> acc, next |-> i]
  ELSE IF s[i] = "\"" THEN [ok |-> TRUE, text |-> acc, next |-> i + 1]
  ELSE IF s[i] = "\\" THEN
    IF i + 1 <= Len(s) /\ s[i + 1] \in {"\"", "\\", "/", "n", "t", "r"}
    THEN ParseStringBody(s, i + 2, Append(acc, Unescape(s[i + 1])))
    ELSE [ok |-> FALSE, text |-> acc, next |-> i]
  ELSE IF s[i] \in {"\n", "\t", "\r"} THEN [ok |-> FALSE, text |-> acc, next |-> i]
  ELSE ParseStringBody(s, i + 1, Append(acc, s[i]))

ParseString(s, i) ==
  IF i <= Len(s) /\ s[i] = "\""
  THEN ParseStringBody(s, i + 1, <<>>)
  ELSE [ok |-> FALSE, text |-> <<>>, next |-> i]

\* Nothing but white space from position i on.
AtEnd(s, i) == SkipWs(s, i) > Len(s)

\* The members of an object from position i, where a key is due.
RECURSIVE ParseMembers(_, _, _)
ParseMembers(s, i, acc) ==
  LET k  == ParseString(s, SkipWs(s, i))
      c  == SkipWs(s, k.next)
      v  == ParseString(s, SkipWs(s, c + 1))
      e  == SkipWs(s, v.next)
      bad == [kind |-> "error", pairs |-> acc]
  IN IF ~k.ok THEN bad
     ELSE IF ~(c <= Len(s) /\ s[c] = ":") THEN bad
     ELSE IF ~v.ok THEN bad
     ELSE LET got == Append(acc, <<k.text, v.text>>) IN
       IF e > Len(s) THEN [kind |-> "error", pairs |-> got]
       ELSE IF s[e] = "," THEN ParseMembers(s, e + 1, got)
       ELSE IF s[e] = "}" THEN
         [kind |-> IF AtEnd(s, e + 1) THEN "object" ELSE "error", pairs |-> got]
       ELSE [kind |-> "error", pairs |-> got]

ParseJson(s) ==
  LET i == SkipWs(s, 1) IN
  IF i > Len(s) THEN [kind |-> "error", pairs |-> <<>>]
  ELSE IF s[i] = "[" THEN
    LET j == SkipWs(s, i + 1) IN
    [kind |-> IF j <= Len(s) /\ s[j] = "]" /\ AtEnd(s, j + 1) THEN "other" ELSE "error",
     pairs |-> <<>>]
  ELSE IF s[i] = "{" THEN
    LET j == SkipWs(s, i + 1) IN
    IF j <= Len(s) /\ s[j] = "}"
    THEN [kind |-> IF AtEnd(s, j + 1) THEN "object" ELSE "error", pairs |-> <<>>]
    ELSE ParseMembers(s, i + 1, <<>>)
  ELSE [kind |-> "error", pairs |-> <<>>]

(***************************************************************************)
(* Paths.  os.path.join and os.path.dirname work on the text of a path;    *)
(* the file system works on its components.                                *)
(***************************************************************************)
IsAbs(path) == Len(path) > 0 /\ path[1] = "/"

\* os.path.join(a, b) (posixpath): an absolute b replaces a.
PathJoin(a, b) ==
  IF IsAbs(b) THEN b
  ELSE IF Len(a) = 0 \/ Last(a) = "/" THEN a \o b
  ELSE a \o <<"/">> \o b

\* The position of the last "/" of path, 0 when it has none.
RECURSIVE LastSlash(_, _)
LastSlash(path, i) ==
  IF i = 0 THEN 0 ELSE IF path[i] = "/" THEN i ELSE LastSlash(path, i - 1)

RECURSIVE StripSlashes(_)
StripSlashes(path) ==
  IF Len(path) > 0 /\ Last(path) = "/" THEN StripSlashes(Front(path)) ELSE path

\* os.path.dirname(path): up to the last "/", trailing slashes dropped
\* unless it is slashes only.
DirName(path) ==
  LET head == SubSeq(path, 1, LastSlash(path, Len(path))) IN
  IF StripSlashes(head) = <<>> THEN head ELSE StripSlashes(head)

\* The components of a path: the texts between its slashes.
RECURSIVE SplitFrom(_, _, _)
SplitFrom(path, i, cur) ==
  IF i > Len(path) THEN <<cur>>
  ELSE IF path[i] = "/" THEN <<cur>> \o SplitFrom(path, i + 1, <<>>)
  ELSE SplitFrom(path, i + 1, Append(cur, path[i]))

Components(path) == SplitFrom(path, 1, <<>>)

(***************************************************************************)
(* The file system: a function from the absolute location of each          *)
(* existing node (the sequence of its components, <<>> the root) to the    *)
(* node, a directory or a file with its bytes.  Relative paths start at    *)
(* the working directory.                                                  *)
(***************************************************************************)
DirNode == [kind |-> "dir", data |-> <<>>]

FileNode(bytes) == [kind |-> "file", data |-> bytes]

cwd == << <<"w">> >>

IsDirAt(f, loc) == loc \in DOMAIN f /\ f[loc].kind = "dir"

Put(f, loc, node) == [l \in DOMAIN f \cup {loc} |-> IF l = loc THEN node ELSE f[l]]

\* Walk the components from location cur, creating the missing
\* directories when create holds: [ok, fs, at].  A component that is a
\* file, or is missing when nothing is created, fails the walk; the
\* directories created before that stay.
RECURSIVE Walk(_, _, _, _)
Walk(f, cur, comps, create) ==
  IF Len(comps) = 0 THEN [ok |-> TRUE, fs |-> f, at |-> cur]
  ELSE LET c == Head(comps)
           child == Append(cur, c)
       IN IF c = <<>> \/ c = <<".">> THEN Walk(f, cur, Tail(comps), create)
          ELSE IF c = <<".", ".">> THEN
            Walk(f, IF cur = <<>> THEN cur ELSE Front(cur), Tail(comps), create)
          ELSE IF IsDirAt(f, child) THEN Walk(f, child, Tail(comps), create)
          ELSE IF child \in DOMAIN f \/ ~create THEN [ok |-> FALSE, fs |-> f, at |-> cur]
          ELSE Walk(Put(f, child, DirNode), child, Tail(comps), create)

StartOf(path) == IF IsAbs(path) THEN <<>> ELSE cwd

\* os.makedirs(path, exist_ok=True): [ok, fs].
MakeDirs(f, path) ==
  IF Len(path) = 0 THEN [ok |-> FALSE, fs |-> f]
  ELSE LET w == Walk(f, StartOf(path), Components(path), TRUE)
       IN [ok |-> w.ok, fs |-> w.fs]

\* The location open(path, 'wb') writes: [ok, at]; the directories of the
\* path must exist, and the last component must name no directory.
Target(f, path) ==
  LET comps == Components(path)
      w == Walk(f, StartOf(path), Front(comps), FALSE)
      name == Last(comps)
  IN IF ~w.ok \/ name \in {<<>>, <<".">>, <<".", ".">>} THEN [ok |-> FALSE, at |-> <<>>]
     ELSE IF IsDirAt(f, Append(w.at, name)) THEN [ok |-> FALSE, at |-> <<>>]
     ELSE [ok |-> TRUE, at |-> Append(w.at, name)]

\* open(path, 'wb') and write(bytes): the file is created or replaced.
WriteFile(f, path, bytes) ==
  LET t == Target(f, path) IN
  IF t.ok THEN [ok |-> TRUE, fs |-> Put(f, t.at, FileNode(bytes)), at |-> t.at]
  ELSE [ok |-> FALSE, fs |-> f, at |-> <<>>]

(***************************************************************************)
(* The inputs the model enumerates.                                        *)
(***************************************************************************)
\* A member of the archive (a ZipInfo with its payload).
Member(name, bytes) == [filename |-> name, payload |-> bytes]

Members ==
  { Member(<<"a">>, <<104, 105>>),
    Member(<<"d", "/">>, <<>>),
    Member(<<"d", "/", "a">>, <<255>>),
    Member(<<"q", "\"", "\\">>, <<>>),
    Member(<<".", ".", "/", "e">>, <<0, 1, 2, 3>>),
    Member(<<"d">>, <<104, 105>>) }

\* ZipInfo.is_dir(): the name ends with a slash.
is_dir(info) == Len(info.filename) > 0 /\ Last(info.filename) = "/"

\* The lica file is missing.
Absent == <<"absent">>

\* Containers that are not the output of a complete pack run.
\* The value of "b" lacks its padding.
BadBase64 ==
  <<"{", "\"", "a", "\"", ":", "\"", "a", "G", "k", "=", "\"", ",",
         "\"", "b", "\"", ":", "\"", "a", "G", "k", "\"", ",",
         "\"", "d", "/", "a", "\"", ":", "\"", "/", "w", "=", "=", "\"", "}">>

\* The key "a" twice.
DuplicateKey ==
  <<"{", "\"", "a", "\"", ":", "\"", "a", "G", "k", "=", "\"", ",",
         "\"", "a", "\"", ":", "\"", "/", "w", "=", "=", "\"", "}">>

\* Cut inside the third value.
Truncated ==
  <<"{", "\"", "a", "\"", ":", "\"", "a", "G", "k", "=", "\"", ",",
         "\"", "b", "\"", ":", "\"", "/", "w", "=", "=", "\"", ",",
         "\"", "c", "\"", ":", "\"", "a", "G">>

\* "d" is written as a file before "d/a" needs it as a directory.
FileThenDir ==
  <<"{", "\"", "d", "\"", ":", "\"", "a", "G", "k", "=", "\"", ",",
         "\"", "d", "/", "a", "\"", ":", "\"", "a", "G", "k", "=", "\"", ",",
         "\"", "b", "\"", ":", "\"", "\"", "}">>

\* A key with a '..' component and an absolute key, with white space.
OutsideKeys ==
  <<"{", " ", "\"", ".", ".", "/", "e", "\"", ":", "\"", "a", "G", "k", "=", "\"", ",",
         "\"", "/", "e", "\"", " ", ":", "\"", "/", "w", "=", "=", "\"", " ", "}">>

\* A complete object followed by one more '}'.
TrailingData ==
  <<"{", "\"", "a", "\"", ":", "\"", "a", "G", "k", "=", "\"", "}", "}">>

\* A well-formed document that is an array.
NotAnObject == <<"[", "]">>

Containers ==
  {Absent, BadBase64, DuplicateKey, Truncated, FileThenDir, OutsideKeys,
   TrailingData, NotAnObject}

output_dir == <<"o">>

\* The location of output_dir.
OutputRoot == Append(cwd, output_dir)

\* The file system before any run: the working directory, and possibly an
\* output directory that already holds a file.
EmptyDisk == (<<>> :> DirNode) @@ (cwd :> DirNode)

UsedDisk ==
  Put(Put(EmptyDisk, OutputRoot, DirNode), Append(OutputRoot, <<"a">>), FileNode(<<111>>))

\* output_dir names a file.
BlockedDisk == Put(EmptyDisk, OutputRoot, FileNode(<<111>>))

(***************************************************************************)
(* The state.                                                              *)
(***************************************************************************)
VARIABLES
  HAS_IJSON,   \* the module-level flag: ijson could be imported
  zip,         \* the input archive: [valid, members]
  lica,        \* the text of the lica file, or Absent
  fs,          \* the file system unpack writes to
  ppc,         \* where pack is
  zfOpen,      \* pack's archive handle zf is open
  outOpen,     \* pack's output stream out_f is open
  first,       \* pack's flag: no pair written yet
  file_count,  \* pack's counter
  next_member, \* the position of pack's loop in zf.infolist()
  upc,         \* where unpack is
  use_stream,  \* unpack's argument
  branch,      \* the branch unpack took: "stream" or "bulk"
  entries,     \* the pairs unpack's loop goes through
  parse_fails, \* the streaming parser raises after the last of entries
  idx,         \* the position of unpack's loop in entries
  count,       \* unpack's counter
  written,     \* the entries unpack wrote in this run: [key, at], in order
  failed,      \* the keys unpack reported as failed in this run, in order
  run,         \* the number of unpack runs started
  fs0,         \* the file system when the first unpack run started
  obs1         \* what the first unpack run left: [fs, count, upc, branch]

vars ==
  <<HAS_IJSON, zip, lica, fs, ppc, zfOpen, outOpen, first, file_count,
    next_member, upc, use_stream, branch, entries, parse_fails, idx, count,
    written, failed, run, fs0, obs1>>

packVars == <<ppc, zfOpen, outOpen, first, file_count, next_member>>

unpackVars ==
  <<upc, use_stream, branch, entries, parse_fails, idx, count, written, failed,
    run, fs0, obs1>>

NoObs == [fs |-> EmptyDisk, count |-> 0, upc |-> "init", branch |-> "none"]

Init ==
  /\ HAS_IJSON \in BOOLEAN
  /\ \/ /\ zip \in {[valid |-> TRUE, members |-> m] : m \in SeqsUpTo(Members, MaxMembers)}
        /\ lica = Absent
        /\ fs = EmptyDisk
     \/ /\ zip = [valid |-> FALSE, members |-> <<>>]
        /\ lica \in Containers
        /\ fs \in {EmptyDisk, UsedDisk, BlockedDisk}
  /\ ppc = "init"
  /\ zfOpen = FALSE
  /\ outOpen = FALSE
  /\ first = TRUE
  /\ file_count = 0
  /\ next_member = 1
  /\ upc = "init"
  /\ use_stream = FALSE
  /\ branch = "none"
  /\ entries = <<>>
  /\ parse_fails = FALSE
  /\ idx = 1
  /\ count = 0
  /\ written = <<>>
  /\ failed = <<>>
  /\ run = 0
  /\ fs0 = fs
  /\ obs1 = NoObs

(***************************************************************************)
(* pack(zip_path, lica_path)                                               *)
(***************************************************************************)
\* No pack run is under way.
PackAtRest == ppc \in {"init", "zip_failed", "out_failed", "aborted", "done"}

\* A variant of Separator that writes the comma before every pair.
SeparatorAlways(isFirst) == <<",">>

\* if not first: out_f.write(',')
Separator(isFirst) == IF isFirst THEN <<>> ELSE <<",">>

\* f'{key}:"{b64_str}"' with key = json.dumps(info.filename).
PairText(info) ==
  JsonDumps(info.filename) \o <<":", "\"">> \o b64encode(info.payload) \o <<"\"">>

\* zipfile.ZipFile(zip_path, 'r'); a failure is printed and pack returns.
PackOpenArchive ==
  /\ ppc = "init"
  /\ run = 0
  /\ IF zip.valid
     THEN zfOpen' = TRUE /\ ppc' = "opened"
     ELSE zfOpen' = FALSE /\ ppc' = "zip_failed"
  /\ file_count' = 0
  /\ UNCHANGED <<HAS_IJSON, zip, lica, fs, outOpen, first, next_member, unpackVars>>

\* open(lica_path, 'w') creates or empties the file; '{' is written.
PackOpenOutput ==
  /\ ppc = "opened"
  /\ lica' = <<"{">>
  /\ outOpen' = TRUE
  /\ first' = TRUE
  /\ next_member' = 1
  /\ ppc' = "loop"
  /\ UNCHANGED <<HAS_IJSON, zip, fs, zfOpen, file_count, unpackVars>>

\* open(lica_path, 'w') raises: the exception leaves pack.
PackOpenOutputFails ==
  /\ ppc = "opened"
  /\ ppc' = "out_failed"
  /\ UNCHANGED <<HAS_IJSON, zip, lica, fs, zfOpen, outOpen, first, file_count,
                 next_member, unpackVars>>

\* One turn of the loop over zf.infolist(), the member being readable.
PackMember ==
  /\ ppc = "loop"
  /\ next_member <= Len(zip.members)
  /\ LET info == zip.members[next_member] IN
       IF is_dir(info)
       THEN UNCHANGED <<lica, first, file_count>>
       ELSE /\ lica' = lica \o Separator(first) \o PairText(info)
            /\ first' = FALSE
            /\ file_count' = file_count + 1
  /\ next_member' = next_member + 1
  /\ UNCHANGED <<HAS_IJSON, zip, fs, ppc, zfOpen, outOpen, unpackVars>>

\* A variant of PackMemberReadFails in which the separator is written
\* before the member is read.
PackMemberReadFailsAfterComma ==
  /\ ppc = "loop"
  /\ next_member <= Len(zip.members)
  /\ ~is_dir(zip.members[next_member])
  /\ lica' = lica \o Separator(first)
  /\ outOpen' = FALSE
  /\ ppc' = "aborted"
  /\ UNCHANGED <<HAS_IJSON, zip, fs, zfOpen, first, file_count, next_member,
                 unpackVars>>

\* zf.open(info) or f.read() raises: the exception leaves the loop and the
\* with block, which closes out_f, and then pack; zf.close() is not reached.
PackMemberReadFails ==
  /\ ppc = "loop"
  /\ next_member <= Len(zip.members)
  /\ ~is_dir(zip.members[next_member])
  /\ outOpen' = FALSE
  /\ ppc' = "aborted"
  /\ UNCHANGED <<HAS_IJSON, zip, lica, fs, zfOpen, first, file_count, next_member,
                 unpackVars>>

\* After the loop: '}' is written, out_f and zf are closed, the count printed.
PackFinish ==
  /\ ppc = "loop"
  /\ next_member > Len(zip.members)
  /\ lica' = lica \o <<"}">>
  /\ outOpen' = FALSE
  /\ zfOpen' = FALSE
  /\ ppc' = "done"
  /\ UNCHANGED <<HAS_IJSON, zip, fs, first, file_count, next_member, unpackVars>>

(***************************************************************************)
(* unpack(lica_path, output_dir, use_stream)                               *)
(***************************************************************************)
UnpackEnded == upc \in {"done", "read_failed", "stream_failed", "crashed"}

\* A variant of ChooseBranch that does not look at the capability.
ChooseBranchUnchecked(us, has) == IF us THEN "stream" ELSE "bulk"

\* if use_stream and HAS_IJSON: ... else: ...
ChooseBranch(us, has) == IF us /\ has THEN "stream" ELSE "bulk"

\* dict[key] = value: a key already present keeps its place and takes the
\* new value.
DictPut(items, kv) ==
  IF \E i \in 1..Len(items) : items[i][1] = kv[1]
  THEN [i \in 1..Len(items) |-> IF items[i][1] = kv[1] THEN kv ELSE items[i]]
  ELSE Append(items, kv)

RECURSIVE DictOf(_, _)
DictOf(pairs, items) ==
  IF Len(pairs) = 0 THEN items ELSE DictOf(Tail(pairs), DictPut(items, Head(pairs)))

\* A variant of BulkEntries that loses the first entry.
BulkEntriesSkipFirst(pairs) ==
  IF Len(pairs) = 0 THEN <<>> ELSE Tail(DictOf(pairs, <<>>))

\* json.load(f) then data.items(): the entries of the dict.
BulkEntries(pairs) == DictOf(pairs, <<>>)

\* A variant of CountAfter that counts the failed entries too.
CountAfterAlways(n, ok) == n + 1

\* count += 1 is the last statement of the try block.
CountAfter(n, ok) == IF ok THEN n + 1 ELSE n

\* A variant of StreamOutcome that reports success after a parse failure.
StreamOutcomeAlwaysDone(fails) == "done"

\* The end of the streaming loop: the parser's exception skips the success
\* message and is reported by the outer except.
StreamOutcome(fails) == IF fails THEN "stream_failed" ELSE "done"

\* The body of the loop for one entry: [ok, fs, at].  An exception of
\* b64decode, makedirs or open is caught by the entry's except.
ProcessEntry(f, key, b64_str) ==
  LET content == b64decode(b64_str)
      full_path == PathJoin(output_dir, key)
      made == MakeDirs(f, DirName(full_path))
      wrote == WriteFile(made.fs, full_path, content.data)
  IN IF ~content.ok THEN [ok |-> FALSE, fs |-> f, at |-> <<>>]
     ELSE IF ~made.ok THEN [ok |-> FALSE, fs |-> made.fs, at |-> <<>>]
     ELSE wrote

\* unpack from its first line to the start of the loop, on file system disk.
Begin(us, disk) ==
  LET made == MakeDirs(disk, output_dir)
      taken == ChooseBranch(us, HAS_IJSON)
      doc == ParseJson(lica)
  IN /\ use_stream' = us
     /\ fs' = made.fs
     /\ idx' = 1
     /\ count' = 0
     /\ written' = <<>>
     /\ failed' = <<>>
     /\ IF ~made.ok
        THEN  \* os.makedirs(output_dir) raises: nothing catches it
             /\ upc' = "crashed"
             /\ branch' = "none"
             /\ entries' = <<>>
             /\ parse_fails' = FALSE
        ELSE /\ branch' = taken
             /\ IF taken = "stream"
                THEN IF lica = Absent
                     THEN upc' = "stream_failed" /\ entries' = <<>> /\ parse_fails' = FALSE
                     ELSE  \* kvitems yields the pairs of the top-level
                           \* object (none for a document that is no
                           \* object); on a document it cannot parse it
                           \* raises after some of the complete pairs
                          /\ upc' = "loop"
                          /\ parse_fails' = (doc.kind = "error")
                          /\ IF doc.kind = "error"
                             THEN \E n \in 0..Len(doc.pairs) :
                                    entries' = SubSeq(doc.pairs, 1, n)
                             ELSE entries' = doc.pairs
                ELSE /\ parse_fails' = FALSE
                     /\ IF lica = Absent \/ doc.kind = "error"
                        THEN  \* open or json.load raises: printed, return
                             upc' = "read_failed" /\ entries' = <<>>
                        ELSE IF doc.kind = "other"
                        THEN  \* data.items() raises AttributeError, uncaught
                             upc' = "crashed" /\ entries' = <<>>
                        ELSE upc' = "loop" /\ entries' = BulkEntries(doc.pairs)

\* The first unpack run.
UnpackStart ==
  /\ PackAtRest
  /\ run = 0
  /\ run' = 1
  /\ fs0' = fs
  /\ \E us \in BOOLEAN : Begin(us, fs)
  /\ UNCHANGED <<HAS_IJSON, zip, lica, packVars, obs1>>

\* A run that took the streaming branch is followed by a run without
\* use_stream on the file system the first run started from.
UnpackAgain ==
  /\ run = 1
  /\ UnpackEnded
  /\ branch = "stream"
  /\ run' = 2
  /\ obs1' = [fs |-> fs, count |-> count, upc |-> upc, branch |-> branch]
  /\ Begin(FALSE, fs0)
  /\ UNCHANGED <<HAS_IJSON, zip, lica, packVars, fs0>>

\* One turn of the loop over the entries.
UnpackEntry ==
  /\ upc = "loop"
  /\ idx <= Len(entries)
  /\ LET key == entries[idx][1]
         r == ProcessEntry(fs, key, entries[idx][2])
     IN /\ fs' = r.fs
        /\ count' = CountAfter(count, r.ok)
        /\ written' = IF r.ok THEN Append(written, [key |-> key, at |-> r.at])
                               ELSE written
        /\ failed' = IF r.ok THEN failed ELSE Append(failed, key)
  /\ idx' = idx + 1
  /\ UNCHANGED <<HAS_IJSON, zip, lica, packVars, upc, use_stream, branch, entries,
                 parse_fails, run, fs0, obs1>>

\* The loop is over: the count is printed, or the parser's failure is.
UnpackFinish ==
  /\ upc = "loop"
  /\ idx > Len(entries)
  /\ upc' = IF branch = "stream" THEN StreamOutcome(parse_fails) ELSE "done"
  /\ UNCHANGED <<HAS_IJSON, zip, lica, fs, packVars, use_stream, branch, entries,
                 parse_fails, idx, count, written, failed, run, fs0, obs1>>

Next ==
  \/ PackOpenArchive
  \/ PackOpenOutput
  \/ PackOpenOutputFails
  \/ PackMember
  \/ PackMemberReadFails
  \/ PackFinish
  \/ UnpackStart
  \/ UnpackAgain
  \/ UnpackEntry
  \/ UnpackFinish

Spec == Init /\ [][Next]_vars

(***************************************************************************)
(* What the properties speak of.                                           *)
(***************************************************************************)
NonDirs(ms) == SelectSeq(ms, LAMBDA m : ~is_dir(m))

\* The pairs of the members ms, one comma between two of them.
RECURSIVE JoinPairs(_)
JoinPairs(ms) ==
  IF Len(ms) = 0 THEN <<>>
  ELSE IF Len(ms) = 1 THEN PairText(ms[1])
  ELSE PairText(ms[1]) \o <<",">> \o JoinPairs(Tail(ms))

IsPrefix(p, q) == Len(p) <= Len(q) /\ SubSeq(q, 1, Len(p)) = p

\* The files of file system f below location root, each with its location
\* relative to root and its bytes.
FilesUnder(f, root) ==
  { <<SubSeq(loc, Len(root) + 1, Len(loc)), f[loc].data>> :
      loc \in {l \in DOMAIN f : f[l].kind = "file" /\ IsPrefix(root, l)} }

\* The files of f, wherever they are.
Files(f) == FilesUnder(f, <<>>)

\* File system f after the loop body has run on the entries es, in order.
RECURSIVE AfterEntries(_, _)
AfterEntries(f, es) ==
  IF Len(es) = 0 THEN f
  ELSE AfterEntries(ProcessEntry(f, es[1][1], es[1][2]).fs, Tail(es))

Document == IF lica = Absent THEN [kind |-> "error", pairs |-> <<>>] ELSE ParseJson(lica)

DistinctKeys(pairs) ==
  \A i, j \in 1..Len(pairs) : pairs[i][1] = pairs[j][1] => i = j

(***************************************************************************)
(* C3.  When pack has completed, the lica file is '{', the pairs of the    *)
(* non-directory members in the order of the archive with one comma        *)
(* between two pairs, and '}'; directory members add nothing, and an       *)
(* archive without files gives '{}'.                                       *)
(***************************************************************************)
PackWritesOneObject ==
  ppc = "done" =>
    /\ lica = <<"{">> \o JoinPairs(NonDirs(zip.members)) \o <<"}">>
    /\ (NonDirs(zip.members) = <<>> => lica = <<"{", "}">>)

\* pack completed on two files with a directory between them
PackWritesOneObjectWitness ==
  /\ ppc = "done"
  /\ Len(zip.members) = 3
  /\ ~is_dir(zip.members[1]) /\ is_dir(zip.members[2]) /\ ~is_dir(zip.members[3])

(***************************************************************************)
(* C8.  When the read of the k-th non-directory member fails, pack is      *)
(* over: the lica file is '{' and the complete pairs of the k-1 files      *)
(* before it, without a dangling comma and without '}', and stays so; the  *)
(* count stays k-1 and is not reported (pack never becomes "done").        *)
(***************************************************************************)
PackAbortLeavesCompletePairs ==
  ppc = "aborted" =>
    LET before == NonDirs(SubSeq(zip.members, 1, next_member - 1)) IN
    /\ next_member <= Len(zip.members)
    /\ ~is_dir(zip.members[next_member])
    /\ lica = <<"{">> \o JoinPairs(before)
    /\ file_count = Len(before)
    /\ ~outOpen

\* the read of the third file failed
PackAbortWitness == ppc = "aborted" /\ file_count = 2

(***************************************************************************)
(* C7.  unpack takes the streaming branch exactly when use_stream is set   *)
(* and ijson was imported; asked to stream without ijson it takes the bulk *)
(* branch.  HAS_IJSON never changes, and the branch of a run does not      *)
(* change once its loop has started.                                       *)
(***************************************************************************)
ModeSelection ==
  /\ [](branch # "none" => (branch = "stream" <=> (use_stream /\ HAS_IJSON)))
  /\ [][HAS_IJSON' = HAS_IJSON /\ (upc = "loop" => branch' = branch)]_vars

\* streaming was asked for without ijson, and the bulk branch unpacked a file
ModeSelectionWitness ==
  use_stream /\ ~HAS_IJSON /\ branch = "bulk" /\ upc = "done" /\ count > 0

(***************************************************************************)
(* C4.  In both branches an entry that fails to decode or to write is      *)
(* reported and not counted, and the loop goes on: count is the number of  *)
(* entries written, every entry is either written or reported, and a run   *)
(* that reached its loop ends only after the last entry.                   *)
(***************************************************************************)
EntryFailureIsolation ==
  /\ upc \in {"loop", "done", "stream_failed"} =>
       /\ count = Len(written)
       /\ Len(written) + Len(failed) = idx - 1
       /\ \A w \in Range(written) : w.at \in DOMAIN fs /\ fs[w.at].kind = "file"
       /\ \A k \in Range(failed) : \E i \in 1..(idx - 1) : entries[i][1] = k
  /\ upc \in {"done", "stream_failed"} => idx = Len(entries) + 1

\* the second of three entries failed, the third was written after it
EntryFailureWitness ==
  /\ upc = "done" /\ branch = "stream"
  /\ lica = BadBase64
  /\ failed = << <<"b">> >>
  /\ count = 2

(***************************************************************************)
(* C6.  A streaming run on a container whose parse fails never reports a   *)
(* count: it ends as a reported parse failure.  Its loop sees only pairs   *)
(* that were complete before the failure, in the order of the stream, and  *)
(* the file system it leaves is the one the loop body made of them.        *)
(***************************************************************************)
StreamParseFailure ==
  (branch = "stream" /\ run = 1 /\ Document.kind = "error") =>
    /\ upc # "done"
    /\ IsPrefix(entries, Document.pairs)
    /\ upc = "stream_failed" =>
         /\ idx = Len(entries) + 1
         /\ fs = AfterEntries(MakeDirs(fs0, output_dir).fs, entries)

\* two pairs were delivered and written before the parser failed
StreamParseFailureWitness ==
  /\ upc = "stream_failed"
  /\ lica = Truncated
  /\ Len(entries) = 2
  /\ count = 2

(***************************************************************************)
(* C2, as stated.  On a container that is one object of string keys and    *)
(* string values, the bulk run leaves the files and the count the          *)
(* streaming run left.                                                     *)
(***************************************************************************)
ModesAgreeOnEveryObject ==
  (run = 2 /\ UnpackEnded /\ Document.kind = "object") =>
    /\ upc = obs1.upc
    /\ Files(fs) = Files(obs1.fs)
    /\ count = obs1.count

(***************************************************************************)
(* C2, amended.  On a container that is one object of string keys and      *)
(* string values whose keys are pairwise distinct, the bulk run leaves the *)
(* file system and the count the streaming run left, entries that fail     *)
(* included.                                                               *)
(***************************************************************************)
ModesAgreeOnDistinctKeys ==
  (run = 2 /\ UnpackEnded /\ Document.kind = "object" /\ DistinctKeys(Document.pairs)) =>
    /\ upc = "done" /\ obs1.upc = "done"
    /\ obs1.branch = "stream" /\ branch = "bulk"
    /\ fs = obs1.fs
    /\ count = obs1.count

\* both runs ended on a container with an entry that fails
ModesAgreeWitness ==
  /\ run = 2 /\ upc = "done"
  /\ lica = BadBase64
  /\ failed # <<>>
  /\ count = 2 /\ obs1.count = 2

(***************************************************************************)
(* C5, as stated.  A bulk run on a lica file that is missing or is not one *)
(* well-formed JSON object reports a read failure and writes nothing: the  *)
(* files are those from before the run.                                    *)
(***************************************************************************)
BulkRejectsBeforeWriting ==
  (branch = "bulk" /\ Document.kind # "object") =>
    /\ upc = "read_failed"
    /\ Files(fs) = Files(fs0)

\* What holds of such a run: it writes no file, creates at most output_dir,
\* and ends without a count, by the reported read failure or, for a
\* well-formed document that is no object, by the AttributeError of
\* data.items().
BulkWritesNothingOnRejection ==
  (branch = "bulk" /\ Document.kind # "object") =>
    /\ upc = IF Document.kind = "other" THEN "crashed" ELSE "read_failed"
    /\ fs = MakeDirs(fs0, output_dir).fs

(***************************************************************************)
(* C9, as stated.  Every file unpack writes is at output_dir/key, below    *)
(* directories that exist, and nothing outside output_dir is created or    *)
(* changed.                                                                *)
(***************************************************************************)
PathContainment ==
  /\ \A w \in Range(written) :
       /\ w.at = OutputRoot \o Components(w.key)
       /\ \A n \in 0..(Len(w.at) - 1) : IsDirAt(fs, SubSeq(w.at, 1, n))
  /\ \A loc \in DOMAIN fs :
       IsPrefix(OutputRoot, loc) \/ (loc \in DOMAIN fs0 /\ fs[loc] = fs0[loc])

\* The names that stay below output_dir: relative, without an empty, '.'
\* or '..' component.
PlainName(name) ==
  /\ ~IsAbs(name)
  /\ \A i \in 1..Len(Components(name)) :
       Components(name)[i] \notin {<<>>, <<".">>, <<".", ".">>}

\* What holds: an entry with a plain key is written at output_dir/key, and
\* a run whose keys are all plain touches nothing outside output_dir.
PlainKeysStayInside ==
  (\A i \in 1..Len(entries) : PlainName(entries[i][1])) => PathContainment

(***************************************************************************)
(* C10, as stated.  When pack has ended, however it ended, neither the     *)
(* archive nor the output stream is open; and when the archive could not   *)
(* be opened the lica file is as it was.                                   *)
(***************************************************************************)
PackReleasesHandles ==
  /\ ppc \in {"zip_failed", "out_failed", "aborted", "done"} => ~zfOpen /\ ~outOpen
  /\ ppc = "zip_failed" => lica \in Containers

\* What holds: the output stream is never left open, and the archive is
\* closed by a pack that completes.
PackClosesOutput ==
  /\ PackAtRest => ~outOpen
  /\ ppc \in {"zip_failed", "done"} => ~zfOpen
  /\ ppc \in {"out_failed", "aborted"} => zfOpen

(***************************************************************************)
(* C1, as stated.  After pack and then unpack into a new directory, the    *)
(* files below output_dir are exactly the non-directory members, each at   *)
(* its name with its payload, and both counts are their number.            *)
(***************************************************************************)
RoundTrip ==
  (ppc = "done" /\ upc = "done") =>
    LET files == NonDirs(zip.members) IN
    /\ FilesUnder(fs, OutputRoot) =
         {<<Components(files[i].filename), files[i].payload>> : i \in 1..Len(files)}
    /\ Cardinality(FilesUnder(fs, OutputRoot)) = Len(files)
    /\ file_count = Len(files)
    /\ count = Len(files)

\* What holds: the round trip of an archive whose file names are plain and
\* pairwise distinct, none of them a directory of another.
RoundTripOfPlainNames ==
  LET files == NonDirs(zip.members) IN
  (/\ \A i \in 1..Len(files) : PlainName(files[i].filename)
   /\ \A i, j \in 1..Len(files) :
        i # j => ~IsPrefix(Components(files[i].filename), Components(files[j].filename)))
  => RoundTrip

=============================================================================
